---------------------------- MODULE Spec2Model ----------------------------
(***************************************************************************)
(* Layered user store: UserController -> UserApplicationService ->         *)
(* UserService -> UserRepositoryImpl -> InMemoryDatabase<User>.            *)
(*                                                                         *)
(* The only mutable state of the program is the array InMemoryDatabase     *)
(* .store.  Every method is synchronous and runs to completion, so a call  *)
(* of a public method is one step; what the call did on its way down the   *)
(* layers is kept in the trace of its result.                              *)
(***************************************************************************)
EXTENDS Integers, Sequences, FiniteSets, TLC

\* ------------------------------------------------------------------ bounds
NumIds == 2

MaxStore == 2

\* ------------------------------------------------------------------ values
IdOf(i) == ToString(i)

Ids == {IdOf(i) : i \in 1..NumIds}

\* usernames and passwords are opaque to every layer, which only store and
\* return them; the values of the main script are among them
Names == {"user1", "user2"}

Secrets == {"password1"}

\* the JavaScript value undefined (also what a void method returns)
Undefined == [type |-> "undefined"]

\* new Error(message)
Error(message) == [type |-> "Error", message |-> message]

\* new User(id, username, password): the three constructor parameters are
\* stored verbatim as the fields of the object
User(id, username, password) ==
    [id |-> id, username |-> username, password |-> password]

Users == {User(i, n, p) : i \in Ids, n \in Names, p \in Secrets}

\* !v for the values that occur here: undefined is falsy, every object is truthy
Truthy(v) == v # Undefined

\* ----------------------------------------------------- outcome of a call
\* A call yields the store it leaves behind, how it completed ("return" or
\* "throw"), the value returned or thrown, and the calls it made, outermost
\* first, each with its own completion.
Return(s, v) == [store |-> s, kind |-> "return", value |-> v, trace |-> <<>>]

Throw(s, e) == [store |-> s, kind |-> "throw", value |-> e, trace |-> <<>>]

\* the method `method` completes as r does
Frame(method, r) ==
    [r EXCEPT !.trace =
        <<[method |-> method, kind |-> r.kind, value |-> r.value]>> \o r.trace]

\* `return callee(...)`: the callee's value is returned, its exception propagates
ReturnCall(method, r) == Frame(method, r)

\* `callee(...);` as the last statement of a void method: undefined is
\* returned once the callee returns, its exception propagates
VoidCall(method, r) ==
    Frame(method, IF r.kind = "throw" THEN r ELSE [r EXCEPT !.value = Undefined])

\* ------------------------------------------------------------ Array<T>
\* Array.prototype.find with the predicate item.id === id: the first element
\* in index order that matches, undefined when none does
ArrayFindLast(s, id) ==
    IF \E i \in 1..Len(s) : s[i].id = id
    THEN s[CHOOSE i \in 1..Len(s) :
              s[i].id = id /\ \A j \in (i+1)..Len(s) : s[j].id # id]
    ELSE Undefined

ArrayFind(s, id) ==
    IF \E i \in 1..Len(s) : s[i].id = id
    THEN s[CHOOSE i \in 1..Len(s) :
              s[i].id = id /\ \A j \in 1..(i-1) : s[j].id # id]
    ELSE Undefined

\* Array.prototype.push: the item becomes the last element
ArrayUnshift(s, item) == <<item>> \o s

ArrayPush(s, item) == Append(s, item)

\* ------------------------------------------------------ InMemoryDatabase
InMemoryDatabase_getById_Throwing(s, id) ==
    Frame("InMemoryDatabase.getById",
          IF ArrayFind(s, id) = Undefined
          THEN Throw(s, Error("User not found"))
          ELSE Return(s, ArrayFind(s, id)))

InMemoryDatabase_getById_Consuming(s, id) ==
    Frame("InMemoryDatabase.getById",
          Return(SelectSeq(s, LAMBDA u : u # ArrayFind(s, id)), ArrayFind(s, id)))

InMemoryDatabase_getById(s, id) ==
    Frame("InMemoryDatabase.getById", Return(s, ArrayFind(s, id)))

InMemoryDatabase_add_Upsert(s, item) ==
    Frame("InMemoryDatabase.add",
          IF \E i \in 1..Len(s) : s[i].id = item.id
          THEN Return([i \in 1..Len(s) |->
                          IF s[i].id = item.id THEN item ELSE s[i]], Undefined)
          ELSE Return(ArrayPush(s, item), Undefined))

InMemoryDatabase_add_Unique(s, item) ==
    Frame("InMemoryDatabase.add",
          IF \E i \in 1..Len(s) : s[i].id = item.id
          THEN Throw(s, Error("User already exists"))
          ELSE Return(ArrayPush(s, item), Undefined))

InMemoryDatabase_add(s, item) ==
    Frame("InMemoryDatabase.add", Return(ArrayPush(s, item), Undefined))

\* ---------------------------------------------------- UserRepositoryImpl
UserRepositoryImpl_getById_Unchecked(s, id) ==
    ReturnCall("UserRepositoryImpl.getById", InMemoryDatabase_getById(s, id))

UserRepositoryImpl_getById(s, id) ==
    LET user == InMemoryDatabase_getById(s, id)
    IN  Frame("UserRepositoryImpl.getById",
              IF user.kind = "throw" THEN user
              ELSE IF ~Truthy(user.value)
              THEN [user EXCEPT !.kind = "throw",
                                !.value = Error("User not found")]
              ELSE user)

UserRepositoryImpl_add(s, user) ==
    VoidCall("UserRepositoryImpl.add", InMemoryDatabase_add(s, user))

\* ------------------------------------------------------------ UserService
UserService_getUser(s, id) ==
    ReturnCall("UserService.getUser", UserRepositoryImpl_getById(s, id))

UserService_createUser(s, user) ==
    VoidCall("UserService.createUser", UserRepositoryImpl_add(s, user))

\* ------------------------------------------------- UserApplicationService
UserApplicationService_getUser_Defaulting(s, id) ==
    LET r == UserService_getUser(s, id)
    IN  Frame("UserApplicationService.getUser",
              IF r.kind = "throw"
              THEN [r EXCEPT !.kind = "return", !.value = Undefined]
              ELSE r)

UserApplicationService_getUser(s, id) ==
    ReturnCall("UserApplicationService.getUser", UserService_getUser(s, id))

UserApplicationService_createUser(s, user) ==
    VoidCall("UserApplicationService.createUser", UserService_createUser(s, user))

\* --------------------------------------------------------- UserController
UserController_getUser(s, id) ==
    ReturnCall("UserController.getUser", UserApplicationService_getUser(s, id))

UserController_createUser_Swapped(s, id, username, password) ==
    VoidCall("UserController.createUser",
             UserApplicationService_createUser(s, User(id, password, username)))

UserController_createUser(s, id, username, password) ==
    VoidCall("UserController.createUser",
             UserApplicationService_createUser(s, User(id, username, password)))

\* ------------------------------------------------------------------ state
VARIABLES
    store,      \* InMemoryDatabase.store of the one database the wiring creates
    pc,         \* "line12", "line13": next statement of the main script;
                \* "exited", "uncaught": how the script ended;
                \* "client": the wired objects are driven by another caller
    last,       \* the latest call of a public method and how it completed
    added,      \* history: the records handed to add / createUser, in call order
    firstSeen   \* history: per id, the first record a lookup returned and the
                \* number of adds that had been made by then

vars == <<store, pc, last, added, firstSeen>>

GetMethods ==
    {"UserController.getUser", "UserApplicationService.getUser",
     "UserService.getUser", "UserRepositoryImpl.getById"}

CreateMethods ==
    {"UserController.createUser", "UserApplicationService.createUser",
     "UserService.createUser", "UserRepositoryImpl.add"}

IsGet(m) == m \in GetMethods

IsCreate(m) == m \in CreateMethods

\* the effect of one completed call on the state, pc aside
Observe(method, id, user, r) ==
    /\ store' = r.store
    /\ last' = [method |-> method, id |-> id, user |-> user,
                kind |-> r.kind, value |-> r.value, trace |-> r.trace]
    /\ added' = IF IsCreate(method) THEN Append(added, user) ELSE added
    /\ firstSeen' =
          IF IsGet(method) /\ r.kind = "return" /\ firstSeen[id] = Undefined
          THEN [firstSeen EXCEPT ![id] = [value |-> r.value, adds |-> Len(added)]]
          ELSE firstSeen

Init ==
    /\ store = <<>>
    /\ pc \in {"line12", "client"}
    /\ last = [method |-> "none", id |-> "", user |-> Undefined,
               kind |-> "return", value |-> Undefined, trace |-> <<>>]
    /\ added = <<>>
    /\ firstSeen = [id \in Ids |-> Undefined]

\* --------------------------------------------------------- the main script
\* line 12: userController.getUser("1");
\* line 13: userController.createUser("1", "user1", "password1");
\* A statement that throws is not caught anywhere: the script ends there.
Main ==
    /\ pc \in {"line12", "line13"}
    /\ LET r == IF pc = "line12"
                THEN UserController_getUser(store, "1")
                ELSE UserController_createUser(store, "1", "user1", "password1")
       IN  /\ IF pc = "line12"
              THEN Observe("UserController.getUser", "1", Undefined, r)
              ELSE Observe("UserController.createUser", "1",
                           User("1", "user1", "password1"), r)
           /\ pc' = IF r.kind = "throw" THEN "uncaught"
                    ELSE IF pc = "line12" THEN "line13" ELSE "exited"

\* ------------------------------------------- calls made by another caller
CallControllerGetUser ==
    /\ pc = "client"
    /\ \E id \in Ids :
          Observe("UserController.getUser", id, Undefined,
                  UserController_getUser(store, id))
    /\ UNCHANGED pc

CallControllerCreateUser ==
    /\ pc = "client"
    /\ Len(store) < MaxStore
    /\ \E id \in Ids, username \in Names, password \in Secrets :
          Observe("UserController.createUser", id, User(id, username, password),
                  UserController_createUser(store, id, username, password))
    /\ UNCHANGED pc

CallApplicationGetUser ==
    /\ pc = "client"
    /\ \E id \in Ids :
          Observe("UserApplicationService.getUser", id, Undefined,
                  UserApplicationService_getUser(store, id))
    /\ UNCHANGED pc

CallApplicationCreateUser ==
    /\ pc = "client"
    /\ Len(store) < MaxStore
    /\ \E user \in Users :
          Observe("UserApplicationService.createUser", user.id, user,
                  UserApplicationService_createUser(store, user))
    /\ UNCHANGED pc

CallServiceGetUser ==
    /\ pc = "client"
    /\ \E id \in Ids :
          Observe("UserService.getUser", id, Undefined,
                  UserService_getUser(store, id))
    /\ UNCHANGED pc

CallServiceCreateUser ==
    /\ pc = "client"
    /\ Len(store) < MaxStore
    /\ \E user \in Users :
          Observe("UserService.createUser", user.id, user,
                  UserService_createUser(store, user))
    /\ UNCHANGED pc

CallRepositoryGetById ==
    /\ pc = "client"
    /\ \E id \in Ids :
          Observe("UserRepositoryImpl.getById", id, Undefined,
                  UserRepositoryImpl_getById(store, id))
    /\ UNCHANGED pc

CallRepositoryAdd ==
    /\ pc = "client"
    /\ Len(store) < MaxStore
    /\ \E user \in Users :
          Observe("UserRepositoryImpl.add", user.id, user,
                  UserRepositoryImpl_add(store, user))
    /\ UNCHANGED pc

Next ==
    \/ Main
    \/ CallControllerGetUser
    \/ CallControllerCreateUser
    \/ CallApplicationGetUser
    \/ CallApplicationCreateUser
    \/ CallServiceGetUser
    \/ CallServiceCreateUser
    \/ CallRepositoryGetById
    \/ CallRepositoryAdd

Spec == Init /\ [][Next]_vars

\* ------------------------------------------------------------ properties
\* no add / createUser call so far was given a record with this id
NeverAdded(id) == \A i \in 1..Len(added) : added[i].id # id

\* added[i] is the first record with its id that was handed to add
FirstWithItsId(i) == \A j \in 1..(i-1) : added[j].id # added[i].id

\* the completion of `method` inside the latest call, when it was reached
Completions(method) ==
    {i \in 1..Len(last.trace) : last.trace[i].method = method}

NotFound == Error("User not found")

\* C1 (as stated): after add(r), every later getById(r.id) returns a record
\* equal to r, whatever else was added before or after.
C1_GetByIdReturnsAnyAddedRecord ==
    last.method = "UserRepositoryImpl.getById" =>
        \A i \in 1..Len(added) :
            added[i].id = last.id =>
                last.kind = "return" /\ last.value = added[i]

\* C1 (amended): after add(r), where no record with r's id was added before
\* r, every later getById(r.id) returns a record equal to r: same id, same
\* username, same password.
C1_GetByIdReturnsFirstAddedRecord ==
    last.method = "UserRepositoryImpl.getById" =>
        \A i \in 1..Len(added) :
            (added[i].id = last.id /\ FirstWithItsId(i)) =>
                /\ last.kind = "return"
                /\ last.value.id = added[i].id
                /\ last.value.username = added[i].username
                /\ last.value.password = added[i].password

C1_Witness ==
    /\ last.method = "UserRepositoryImpl.getById"
    /\ last.kind = "return"
    /\ \E i \in 1..Len(added) :
          /\ added[i].id = last.id
          /\ FirstWithItsId(i)
          /\ last.value = added[i]
          /\ i > 1

C3_DuplicateIdKeepsFirst ==
    /\ (IsCreate(last.method) /\ ~FirstWithItsId(Len(added))) =>
          /\ last.kind = "return"
          /\ Len(store) = Len(added)
          /\ store[Len(store)] = last.user
    /\ \A i \in 1..Len(added) :
          FirstWithItsId(i) =>
              /\ UserRepositoryImpl_getById(store, added[i].id).kind = "return"
              /\ UserRepositoryImpl_getById(store, added[i].id).value = added[i]
    /\ IsGet(last.method) =>
          \A i \in 1..Len(added) :
              (added[i].id = last.id /\ FirstWithItsId(i)) =>
                  last.kind = "return" /\ last.value = added[i]

C3_Witness ==
    /\ last.method = "UserRepositoryImpl.getById"
    /\ last.kind = "return"
    /\ \E i, j \in 1..Len(added) :
          /\ i < j
          /\ added[i].id = last.id
          /\ added[j].id = last.id
          /\ added[i].username # added[j].username
          /\ last.value.username = added[i].username

\* C4: the store starts empty; every add returns normally and turns the
\* sequence s into s followed by the record; no other call changes it, so no
\* record is ever removed, moved or replaced.
C4_AppendOnly ==
    /\ store = <<>>
    /\ [][ /\ IsCreate(last'.method) =>
                /\ last'.kind = "return"
                /\ store' = Append(store, last'.user)
           /\ ~IsCreate(last'.method) => store' = store
           /\ Len(store') >= Len(store)
           /\ \A i \in 1..Len(store) : store'[i] = store[i]
         ]_vars

C4_Witness ==
    /\ IsCreate(last.method)
    /\ Len(store) >= 2
    /\ store[1].id = store[2].id
    /\ store[1] # store[2]
    /\ store[Len(store)] = last.user

C6_DatabaseSignalsNotFound ==
    (IsGet(last.method) /\ NeverAdded(last.id)) =>
        \A i \in Completions("InMemoryDatabase.getById") :
            last.trace[i].kind = "throw"

\* C6 (amended): InMemoryDatabase.getById returns undefined when no stored
\* record has the id; it is UserRepositoryImpl.getById that turns this
\* undefined into the NotFound error.
C6_DatabaseReturnsUndefined ==
    (IsGet(last.method) /\ NeverAdded(last.id)) =>
        /\ \A i \in Completions("InMemoryDatabase.getById") :
              last.trace[i].kind = "return" /\ last.trace[i].value = Undefined
        /\ \A i \in Completions("UserRepositoryImpl.getById") :
              last.trace[i].kind = "throw" /\ last.trace[i].value = NotFound
        /\ Completions("InMemoryDatabase.getById") # {}
        /\ Completions("UserRepositoryImpl.getById") # {}

C6_Witness ==
    /\ last.method = "UserRepositoryImpl.getById"
    /\ NeverAdded(last.id)
    /\ Len(last.trace) = 2
    /\ last.trace[2].method = "InMemoryDatabase.getById"
    /\ last.trace[2].value = Undefined
    /\ last.trace[1].kind = "throw"

\* C7: the main script runs both of its statements: getUser("1") throws, then
\* createUser("1", "user1", "password1") is executed, and the run ends with
\* the store holding exactly that user.
C7_MainRunAddsUser ==
    pc \in {"exited", "uncaught"} =>
        /\ pc = "exited"
        /\ store = <<User("1", "user1", "password1")>>

C9_GetByIdLeavesStore ==
    /\ [](\A id \in Ids :
             /\ InMemoryDatabase_getById(store, id).store = store
             /\ UserRepositoryImpl_getById(store, id).store = store)
    /\ [][ /\ IsGet(last'.method) => store' = store
           /\ store' # store => IsCreate(last'.method)
         ]_vars

C9_Witness ==
    /\ IsGet(last.method)
    /\ last.kind = "return"
    /\ Len(store) >= 2
    /\ store[2] = last.value

\* C10: once a lookup of id has returned r, every later lookup of id returns
\* r, whatever was added in between; a lookup of id can turn from failing to
\* succeeding only by an add of a record with that id, and never turns from
\* succeeding to failing.
C10_LookupStable ==
    /\ [](\A id \in Ids :
             firstSeen[id] # Undefined =>
                 /\ UserRepositoryImpl_getById(store, id).kind = "return"
                 /\ UserRepositoryImpl_getById(store, id).value = firstSeen[id].value
                 /\ (IsGet(last.method) /\ last.id = id) =>
                        last.kind = "return" /\ last.value = firstSeen[id].value)
    /\ [][ \A id \in Ids :
             store' # store =>
             LET before == UserRepositoryImpl_getById(store, id)
                 after == UserRepositoryImpl_getById(store', id)
             IN  /\ before.kind = "return" =>
                        after.kind = "return" /\ after.value = before.value
                 /\ (before.kind = "throw" /\ after.kind = "return") =>
                        IsCreate(last'.method) /\ last'.user.id = id
         ]_vars

C10_Witness ==
    /\ IsGet(last.method)
    /\ last.kind = "return"
    /\ firstSeen[last.id] # Undefined
    /\ firstSeen[last.id].value = last.value
    /\ \E j \in 1..Len(added) :
          /\ j > firstSeen[last.id].adds
          /\ added[j].id = last.id
          /\ added[j] # last.value

=============================================================================
